---- MODULE Spec2Model ----
(***************************************************************************)
(* The antigravity MCP server: the knowledge store (tools/knowledge.ts),    *)
(* the artifacts (tools/artifacts.ts), the task state (task_boundary.ts),  *)
(* the agent state (agent_state.ts) and the tool dispatcher of index.ts.   *)
(*                                                                         *)
(* Texts are sequences of one-character strings.  A JavaScript `undefined` *)
(* (an argument the caller left out, a JSON field that is not there) is    *)
(* the text UndefText, the tag list UndefTags or the string Undef.         *)
(* A file is Missing, Garbage (content JSON.parse rejects) or Json(v).     *)
(***************************************************************************)
EXTENDS Integers, Sequences, FiniteSets, TLC

\* ------------------------------------------------------------------ bounds

\* Number of ids randomUUID hands out in one behaviour.
MaxSaves == 2

\* Number of changes made to the files from outside the server in one behaviour.
MaxTampers == 1

\* Length of the longest query text of the tokenizer's specification.
MaxTextLen == 3

\* Readings of the clock by create_artifact, update_artifact and task_boundary.
MaxClock == 3

\* ------------------------------------------------------------ JS values

Undef == "undefined"
UndefText == <<Undef>>
UndefTags == <<UndefText>>

IsText(t) == t # UndefText
IsTags(t) == t # UndefTags

Min(a, b) == IF a < b THEN a ELSE b

\* String.prototype.substring(0, n)
substring(text, n) == SubSeq(text, 1, Min(n, Len(text)))

\* ------------------------------------------------------------- tokenizer

WordChars == {"a", "b", "k", "A", "B", "K", "_", "1"}
SpaceChars == {" "}
PunctChars == {"-", "."}
Chars == WordChars \cup SpaceChars \cup PunctChars

ToLowerChar(c) ==
  CASE c = "A" -> "a"
    [] c = "B" -> "b"
    [] c = "K" -> "k"
    [] OTHER -> c

toLowerCase(text) == [i \in 1..Len(text) |-> ToLowerChar(text[i])]

\* .replace(/[^\w\s]/g, " ")
replaceNonWord(text) ==
  [i \in 1..Len(text) |->
     IF text[i] \notin WordChars /\ text[i] \notin SpaceChars THEN " " ELSE text[i]]

\* .split(/\s+/): the pieces between maximal runs of whitespace; a leading or
\* trailing run leaves an empty piece, and "" splits into one empty piece.
\* The pieces of text[lo..hi] are put together from those of its two halves.
joinPieces(left, right, runContinues) ==
  IF runContinues
  THEN SubSeq(left, 1, Len(left) - 1) \o Tail(right)
  ELSE SubSeq(left, 1, Len(left) - 1)
       \o << left[Len(left)] \o Head(right) >>
       \o Tail(right)

RECURSIVE splitRange(_, _, _)
splitRange(text, lo, hi) ==
  IF lo > hi THEN << <<>> >>
  ELSE IF lo = hi
       THEN IF text[lo] \in SpaceChars THEN << <<>>, <<>> >> ELSE << <<text[lo]>> >>
  ELSE LET mid == (lo + hi) \div 2
       IN joinPieces(splitRange(text, lo, mid), splitRange(text, mid + 1, hi),
                     text[mid] \in SpaceChars /\ text[mid + 1] \in SpaceChars)

split(text) == splitRange(text, 1, Len(text))

NonEmpty(tok) == Len(tok) > 0

\* tokenize without `.filter((token) => token.length > 0)`.
tokenize_KeepEmpty(text) == split(replaceNonWord(toLowerCase(text)))

tokenize(text) == SelectSeq(split(replaceNonWord(toLowerCase(text))), NonEmpty)

\* String.prototype.includes
includes(hay, needle) ==
  \E i \in 0..(Len(hay) - Len(needle)) :
     SubSeq(hay, i + 1, i + Len(needle)) = needle

\* ---------------------------------------------------------------- scorer

TitleExact == 10
TitleSub == 5
TagExact == 8
TagSub == 4
ContentExact == 2
ContentSub == 1

\* MatchPoints with `if` in the place of `else if`: an equal token also counts
\* as one that contains the query token.
MatchPoints_NoElse(fieldToken, queryToken, exact, sub) ==
  (IF fieldToken = queryToken THEN exact ELSE 0)
  + (IF includes(fieldToken, queryToken) THEN sub ELSE 0)

MatchPoints(fieldToken, queryToken, exact, sub) ==
  IF fieldToken = queryToken THEN exact
  ELSE IF includes(fieldToken, queryToken) THEN sub
  ELSE 0

RECURSIVE SumRange(_, _, _)
SumRange(nums, lo, hi) ==
  IF lo > hi THEN 0
  ELSE IF lo = hi THEN nums[lo]
  ELSE LET mid == (lo + hi) \div 2
       IN SumRange(nums, lo, mid) + SumRange(nums, mid + 1, hi)

\* One inner loop of calculateRelevanceScore: a query token against one field.
SumPoints(fieldTokens, queryToken, exact, sub) ==
  SumRange([i \in 1..Len(fieldTokens) |->
              MatchPoints(fieldTokens[i], queryToken, exact, sub)],
           1, Len(fieldTokens))

lowerTags(tags) == [i \in 1..Len(tags) |-> toLowerCase(tags[i])]

RECURSIVE scoreTokens(_, _, _, _)
scoreTokens(titleTokens, tagTokens, contentTokens, queryTokens) ==
  IF queryTokens = <<>> THEN 0
  ELSE SumPoints(titleTokens, Head(queryTokens), TitleExact, TitleSub)
       + SumPoints(tagTokens, Head(queryTokens), TagExact, TagSub)
       + SumPoints(contentTokens, Head(queryTokens), ContentExact, ContentSub)
       + scoreTokens(titleTokens, tagTokens, contentTokens, Tail(queryTokens))

\* tokenize(undefined) and undefined.map(...) throw a TypeError.
scoreThrows(item) ==
  ~IsText(item.title) \/ ~IsText(item.content) \/ ~IsTags(item.tags)

calculateRelevanceScore(item, queryTokens) ==
  scoreTokens(tokenize(item.title), lowerTags(item.tags),
              tokenize(item.content), queryTokens)

\* --------------------------------------------------------------- filters

\* filterByScope without its `case "global"`: the switch falls to `default`.
filterByScope_GlobalAdmitsAll(item, scope, projectPath) ==
  IF scope = "all" THEN TRUE
  ELSE IF scope = "project"
       THEN IF projectPath = Undef \/ projectPath = ""
            THEN item.scope = "project"
            ELSE item.scope = "project" /\ item.projectPath = projectPath
  ELSE TRUE

\* `!projectPath` holds for undefined and for "".
filterByScope(item, scope, projectPath) ==
  IF scope = "all" THEN TRUE
  ELSE IF scope = "global" THEN item.scope = "global"
  ELSE IF scope = "project"
       THEN IF projectPath = Undef \/ projectPath = ""
            THEN item.scope = "project"
            ELSE item.scope = "project" /\ item.projectPath = projectPath
  ELSE TRUE

\* item.tags.map(...) is reached only with a non-empty requested list.
tagsThrows(item, tags) ==
  IsTags(tags) /\ Len(tags) > 0 /\ ~IsTags(item.tags)

\* filterByTags with `every` in the place of `some`.
filterByTags_AllRequested(item, tags) ==
  IF ~IsTags(tags) \/ Len(tags) = 0 THEN TRUE
  ELSE \A i \in 1..Len(tags) :
         \E j \in 1..Len(item.tags) :
            toLowerCase(item.tags[j]) = toLowerCase(tags[i])

filterByTags(item, tags) ==
  IF ~IsTags(tags) \/ Len(tags) = 0 THEN TRUE
  ELSE \E i \in 1..Len(tags) :
         \E j \in 1..Len(item.tags) :
            toLowerCase(item.tags[j]) = toLowerCase(tags[i])

\* ------------------------------------------------------------- documents

VARIABLES
  records,    \* id -> the file KNOWLEDGE_DIR/<id>.json
  indexFile,  \* the file KNOWLEDGE_DIR/index.json
  nextId,     \* number of the next save_knowledge call: its UUID and its timestamp
  pc,         \* per call slot: the await the call is suspended at
  local,      \* per call slot: the handler's arguments and local variables
  resp,       \* per call slot: the response the dispatcher returned
  acked,      \* the ids the callers were told were saved
  tampers,    \* number of changes made to the files from outside the server
  stateFile,       \* the file STATE_DIR/state.json
  artifactsFile,   \* the file STATE_DIR/artifacts.json
  reviewsFile,     \* the file STATE_DIR/reviews.json
  statisticsFile,  \* the file STATE_DIR/statistics.json
  manifestFile,    \* the file artifacts.json of the project's brain directory
  artifactFiles,   \* type -> the file <type>.md of the project's brain directory
  clock,           \* number of readings of new Date() by the agent tools
  lastBoundary,    \* history: arguments of the last task_boundary that saved its
                   \* state, since state.json was last reset
  lastReset,       \* history: what the last reset_agent_state is to leave behind
                   \* with no task_boundary saved since
  fileWrites,      \* history: type -> number of calls that wrote <type>.md
  faulted          \* history: a storage operation of create_artifact or
                   \* update_artifact was rejected

\* The files of the brain directory, ~/.gemini/antigravity/brain/<hash>, and
\* what is recorded about the calls that wrote them.
brainVars == <<manifestFile, artifactFiles, fileWrites, faulted>>

\* The files of STATE_DIR, ~/.antigravity, the brain directory and the clock;
\* KNOWLEDGE_DIR is elsewhere.
stateDirVars == <<stateFile, artifactsFile, reviewsFile, statisticsFile>>

agentVars == <<stateDirVars, brainVars, clock, lastBoundary, lastReset>>

vars == <<records, indexFile, nextId, pc, local, resp, acked, tampers, agentVars>>

Calls == {"c1", "c2"}
Ids == 1..MaxSaves

IndexContentLen == 200
DefaultLimit == 10

NullItem ==
  [id |-> 0, title |-> UndefText, content |-> UndefText, tags |-> UndefTags,
   scope |-> Undef, projectPath |-> Undef, createdAt |-> 0, updatedAt |-> 0]

\* loadIndex's fallback value; hasItems is FALSE for a parsed document that has
\* no `items` member.
EmptyIndex == [hasItems |-> TRUE, items |-> <<>>, lastUpdated |-> 0]

MissingRecord == [kind |-> "missing", value |-> NullItem]
GarbageRecord == [kind |-> "garbage", value |-> NullItem]
MissingIndex == [kind |-> "missing", value |-> EmptyIndex]
GarbageIndex == [kind |-> "garbage", value |-> EmptyIndex]

\* JSON.stringify leaves out a member that is undefined and JSON.parse gives
\* undefined for a member that is not there: Undef survives the round trip.
stringify(v) == [kind |-> "json", value |-> v]
parses(file) == file.kind = "json"
parse(file) == file.value

\* fs.writeFile: the new content, or the rejection that leaves the file as it was.
writeFile(old, data, ok) == IF ok THEN data ELSE old

loadIndex(file, readOk) ==
  IF readOk /\ parses(file) THEN parse(file) ELSE EmptyIndex

loadKnowledgeFile(recs, id, readOk) ==
  IF id \in DOMAIN recs /\ readOk /\ parses(recs[id])
  THEN [found |-> TRUE, item |-> parse(recs[id])]
  ELSE [found |-> FALSE, item |-> NullItem]

IndexKeys(index) == {index.items[i].id : i \in 1..Len(index.items)}

PersistedKeys == IF parses(indexFile) THEN IndexKeys(parse(indexFile)) ELSE {}

\* index.items[id] = entry: a new key goes last, an existing key keeps its place.
\* putEntry of a handler that writes an index holding the new entry alone.
putEntry_OnlyNew(items, entry) == <<entry>>

putEntry(items, entry) ==
  IF \E i \in 1..Len(items) : items[i].id = entry.id
  THEN [i \in 1..Len(items) |-> IF items[i].id = entry.id THEN entry ELSE items[i]]
  ELSE Append(items, entry)

\* ------------------------------------------------------------- arguments

TitleAb == <<"A", "b">>
ContentShort == <<"a", "b", " ", "k">>

RECURSIVE Repeat(_, _)
Repeat(text, n) ==
  IF n = 0 THEN <<>>
  ELSE IF n = 1 THEN text
  ELSE Repeat(text, n \div 2) \o Repeat(text, n - (n \div 2))

\* 200 characters of "b " and then the token "k" beyond the indexed prefix.
ContentLong == Repeat(<<"b", " ">>, 100) \o <<"k">>

BaseSave ==
  [title |-> TitleAb, content |-> ContentShort, tags |-> UndefTags,
   scope |-> Undef, projectPath |-> Undef]

SaveInputs ==
  { BaseSave,
    [BaseSave EXCEPT !.title = UndefText],
    [BaseSave EXCEPT !.content = UndefText],
    [BaseSave EXCEPT !.content = ContentLong, !.tags = << <<"K">> >>,
                     !.scope = "project", !.projectPath = "/p1"],
    [BaseSave EXCEPT !.scope = "project", !.projectPath = "/p2"],
    [BaseSave EXCEPT !.scope = "project"],
    [BaseSave EXCEPT !.scope = "global", !.projectPath = "/p1"],
    [BaseSave EXCEPT !.scope = "project", !.projectPath = ""] }

\* limitGiven is FALSE when the caller sends no limit.  projectPath is the
\* project the caller works in.
BaseSearch ==
  [query |-> <<"k">>, tags |-> UndefTags, scope |-> Undef,
   limitGiven |-> FALSE, limit |-> 0, projectPath |-> Undef]

SearchInputs ==
  { BaseSearch,
    [BaseSearch EXCEPT !.query = UndefText],
    [BaseSearch EXCEPT !.scope = "project", !.projectPath = "/p1"],
    [BaseSearch EXCEPT !.query = <<"A", "b">>, !.scope = "global"],
    [BaseSearch EXCEPT !.tags = << <<"k">> >>],
    [BaseSearch EXCEPT !.query = <<"b">>, !.limitGiven = TRUE, !.limit = 1],
    [BaseSearch EXCEPT !.query = <<"-">>],
    [BaseSearch EXCEPT !.query = <<"a">>, !.scope = "all", !.tags = <<>>,
                       !.limitGiven = TRUE, !.limit = 0] }

\* ------------------------------------------------------------- responses

NoResp == [isError |-> FALSE, text |-> "none", id |-> 0, results |-> <<>>]

\* The dispatcher's catch block: "Error executing <tool>: <message>".
ErrorResp(message) ==
  [isError |-> TRUE, text |-> message, id |-> 0, results |-> <<>>]

\* wrapHandler around the handler's string.
SavedResp(id) == [isError |-> FALSE, text |-> "saved", id |-> id, results |-> <<>>]

FoundResp(results) ==
  [isError |-> FALSE,
   text |-> IF Len(results) = 0 THEN "no_results" ELSE "found",
   id |-> 0, results |-> results]

\* The names of toolHandlers.
ToolNames ==
  {"task_boundary", "notify_user", "create_artifact", "update_artifact",
   "get_agent_state", "reset_agent_state", "save_knowledge", "search_knowledge"}

\* toolHandlers is an object literal, so toolHandlers[name] also finds the
\* members of Object.prototype: for "constructor" it is the function Object.
InheritedNames == {"constructor"}

\* Names a client sends that are no tool of the server.
OtherNames == {"delete_knowledge", "constructor"}

\* `return await handler(args ?? {})` for the handler Object: the arguments
\* object itself comes back as the result, and {} has no isError.
EchoResp == [isError |-> FALSE, text |-> "arguments", id |-> 0, results |-> <<>>]

\* preserveKnowledge is the argument of the README's example; the handler
\* reads preserveStatistics and projectPath only.
BaseReset ==
  [preserveStatistics |-> Undef, preserveKnowledge |-> Undef, projectPath |-> Undef]

ResetInputs ==
  { [BaseReset EXCEPT !.preserveStatistics = ps, !.preserveKnowledge = pk] :
      ps \in {Undef, "true", "false"}, pk \in {Undef, "true", "false"} }
  \cup { [BaseReset EXCEPT !.projectPath = "/p1"] }

createDefaultStatistics(timestamp) ==
  [toolCallsInSession |-> 0, tasksCompleted |-> 0, filesModified |-> 0,
   testsRun |-> 0, errorsEncountered |-> 0, sessionStartedAt |-> timestamp]

\* ---- artifacts (tools/artifacts.ts)

\* ArtifactType; the handlers serve one project, that of process.cwd().
ArtifactTypes == {"task", "walkthrough"}

\* Artifact texts, and the file system's answer for a file that is not there.
Contents == {"plan A", "plan B", "plan C"}
NoFile == "ENOENT"

\* The first 8 hex digits of the SHA-256: two different texts can share it.
getContentHash(content) ==
  IF content = "plan B" THEN "5f2b9c01" ELSE "a41d07e3"

\* manifest.artifacts[type] for a type that is no key: undefined.
NoArtifact ==
  [type |-> Undef, summary |-> Undef, complexity |-> Undef, isArtifact |-> Undef,
   createdAt |-> 0, updatedAt |-> 0, versions |-> <<>>]

EmptyManifest == [artifacts |-> [t \in ArtifactTypes |-> NoArtifact]]

MissingManifest == [kind |-> "missing", value |-> EmptyManifest]

\* Every read or parse error gives the manifest without artifacts.
loadManifest(file, readOk) ==
  IF readOk /\ parses(file) THEN parse(file) ELSE EmptyManifest

\* The arguments of create_artifact and update_artifact as the client sends
\* them; update_artifact's schema has type, content, complexity.
BaseArtifact ==
  [type |-> "task", content |-> "plan A", summary |-> Undef, complexity |-> Undef,
   isArtifact |-> Undef, overwrite |-> Undef]

CreateInputs ==
  { BaseArtifact,
    [BaseArtifact EXCEPT !.overwrite = "false"],
    [BaseArtifact EXCEPT !.content = "plan B", !.overwrite = "true"],
    [BaseArtifact EXCEPT !.content = "plan C", !.overwrite = "true",
                         !.summary = "outline", !.complexity = "3",
                         !.isArtifact = "false"],
    [BaseArtifact EXCEPT !.type = "walkthrough", !.content = "plan B"],
    [BaseArtifact EXCEPT !.content = Undef] }

UpdateInputs ==
  { BaseArtifact,
    [BaseArtifact EXCEPT !.content = "plan B", !.complexity = "7"],
    [BaseArtifact EXCEPT !.content = "plan C"],
    [BaseArtifact EXCEPT !.type = "walkthrough"],
    [BaseArtifact EXCEPT !.content = Undef] }

\* The handlers return a text and no isError.
ArtifactResp(text) == [isError |-> FALSE, text |-> text, id |-> 0, results |-> <<>>]

\* ---- task state (tools/task_boundary.ts)

Null == "null"

Modes == {"PLANNING", "EXECUTION", "VERIFICATION"}

\* currentTask: null
NullTask ==
  [null |-> TRUE, taskName |-> Undef, mode |-> Undef, taskStatus |-> Undef,
   taskSummary |-> Undef, predictedTaskSize |-> Undef,
   createdAt |-> 0, updatedAt |-> 0, modeHistory |-> <<>>]

\* The arguments of task_boundary as the client sends them.
BaseBoundary ==
  [TaskName |-> "t1", Mode |-> "PLANNING", TaskStatus |-> "s1",
   TaskSummary |-> Undef, PredictedTaskSize |-> Undef]

\* No task_boundary has saved its state.
NoBoundary ==
  [TaskName |-> Undef, Mode |-> Undef, TaskStatus |-> Undef,
   TaskSummary |-> Undef, PredictedTaskSize |-> Undef]

BoundaryInputs ==
  { [BaseBoundary EXCEPT !.Mode = m] : m \in Modes }
  \cup { [BaseBoundary EXCEPT !.TaskName = "t2", !.TaskStatus = "s2",
                              !.TaskSummary = "half done", !.PredictedTaskSize = "5"],
         [BaseBoundary EXCEPT !.TaskName = Undef],
         [BaseBoundary EXCEPT !.Mode = Undef],
         [BaseBoundary EXCEPT !.Mode = "IDLE"],
         [BaseBoundary EXCEPT !.TaskStatus = Undef] }

\* ---- agent state (tools/agent_state.ts)

MAX_MODE_HISTORY == 10
MAX_RECENT_ARTIFACTS == 20

\* extractCurrentTask's null.
NoCurrentTask ==
  [null |-> TRUE, name |-> Undef, status |-> Undef, summary |-> Undef, startedAt |-> 0]

\* The five counters of AgentStatistics.
Counters(statistics) ==
  <<statistics.toolCallsInSession, statistics.tasksCompleted, statistics.filesModified,
    statistics.testsRun, statistics.errorsEncountered>>

\* No reset to remember: none was called, the last one was given up at a
\* rejected write, or its read of statistics.json was rejected.  Otherwise the
\* history holds the counters the reset is to leave in statistics.json (those
\* of the file when preserveStatistics is true, zeros otherwise), its
\* timestamp, and whether its four files have been written.
NoReset ==
  [completed |-> FALSE, counters |-> <<0, 0, 0, 0, 0>>, timestamp |-> 0]

\* agentState of handleGetAgentState before any file is read.
NoAgentState ==
  [currentMode |-> "IDLE", currentTask |-> NoCurrentTask, recentArtifacts |-> <<>>,
   modeHistory |-> <<>>, pendingReviews |-> <<>>,
   statistics |-> createDefaultStatistics(0), lastUpdated |-> 0]

NoLocal ==
  [tool |-> "none", save |-> BaseSave, search |-> BaseSearch,
   item |-> NullItem, index |-> EmptyIndex, skipped |-> {},
   reset |-> BaseReset, timestamp |-> 0, statistics |-> createDefaultStatistics(0),
   args |-> BaseArtifact, boundary |-> BaseBoundary,
   agentState |-> NoAgentState, rejected |-> {}]

CanCall(p) == pc[p] \in {"idle", "done"}

\* -------------------------------------------------------- save_knowledge

\* The item handleSaveKnowledge builds: no argument is validated, the
\* defaults are those of `??`, and projectPath is copied whatever the scope.
newItem(input, id, timestamp) ==
  [id |-> id,
   title |-> input.title,
   content |-> input.content,
   tags |-> IF IsTags(input.tags) THEN input.tags ELSE <<>>,
   scope |-> IF input.scope = Undef THEN "global" ELSE input.scope,
   projectPath |-> input.projectPath,
   createdAt |-> timestamp,
   updatedAt |-> timestamp]

\* indexEntry without `.substring(0, 200)`: the index holds the full item.
indexEntry_Untruncated(item) == item

indexEntry(item) == [item EXCEPT !.content = substring(item.content, IndexContentLen)]

\* SaveKnowledgeFile with the rejection of the record write caught and ignored:
\* the handler goes on to the index.
SaveKnowledgeFile_WriteErrorIgnored(p, input, ok) ==
  /\ CanCall(p)
  /\ nextId <= MaxSaves
  /\ LET item == newItem(input, nextId, nextId) IN
       /\ nextId' = nextId + 1
       /\ records' = [records EXCEPT ![item.id] = writeFile(@, stringify(item), ok)]
       /\ local' = [local EXCEPT ![p] =
                      [NoLocal EXCEPT !.tool = "save_knowledge", !.save = input,
                                      !.item = item]]
       /\ pc' = [pc EXCEPT ![p] = "save_loadIndex"]
       /\ resp' = [resp EXCEPT ![p] = NoResp]
  /\ UNCHANGED <<indexFile, acked, tampers, agentVars>>

\* Entry of the call, up to the end of `await saveKnowledgeFile(item)`.  A
\* rejected mkdir or writeFile leaves the handler through the dispatcher's catch.
SaveKnowledgeFile(p, input, ok) ==
  /\ CanCall(p)
  /\ nextId <= MaxSaves
  /\ LET item == newItem(input, nextId, nextId) IN
       /\ nextId' = nextId + 1
       /\ records' = [records EXCEPT ![item.id] = writeFile(@, stringify(item), ok)]
       /\ local' = [local EXCEPT ![p] =
                      [NoLocal EXCEPT !.tool = "save_knowledge", !.save = input,
                                      !.item = item]]
       /\ pc' = [pc EXCEPT ![p] = IF ok THEN "save_loadIndex" ELSE "done"]
       /\ resp' = [resp EXCEPT ![p] =
                     IF ok THEN NoResp ELSE ErrorResp("record write failed")]
  /\ UNCHANGED <<indexFile, acked, tampers, agentVars>>

\* `const index = await loadIndex()`
SaveLoadIndex(p, ok) ==
  /\ pc[p] = "save_loadIndex"
  /\ local' = [local EXCEPT ![p].index = loadIndex(indexFile, ok)]
  /\ pc' = [pc EXCEPT ![p] = "save_saveIndex"]
  /\ UNCHANGED <<records, indexFile, nextId, resp, acked, tampers, agentVars>>

\* SaveIndex with the rejection of the index write caught and ignored: the
\* handler returns its confirmation text.
SaveIndex_WriteErrorIgnored(p, ok) ==
  /\ pc[p] = "save_saveIndex"
  /\ LET item == local[p].item
         index == local[p].index
     IN IF ~index.hasItems \/ ~IsText(item.content)
        THEN /\ resp' = [resp EXCEPT ![p] = ErrorResp("TypeError")]
             /\ UNCHANGED <<indexFile, acked>>
        ELSE LET updated == [index EXCEPT
                               !.items = putEntry(@, indexEntry(item)),
                               !.lastUpdated = item.createdAt]
             IN /\ indexFile' = writeFile(indexFile, stringify(updated), ok)
                /\ resp' = [resp EXCEPT ![p] = SavedResp(item.id)]
                /\ acked' = acked \cup {item.id}
  /\ pc' = [pc EXCEPT ![p] = "done"]
  /\ UNCHANGED <<records, nextId, local, tampers, agentVars>>

\* The rest of the handler: the entry is put into the loaded index, the index
\* is written, and the confirmation text is returned.  `index.items[id] = ...`
\* throws when the loaded document has no items, and item.content.substring
\* throws when content is undefined.
SaveIndex(p, ok) ==
  /\ pc[p] = "save_saveIndex"
  /\ LET item == local[p].item
         index == local[p].index
     IN IF ~index.hasItems \/ ~IsText(item.content)
        THEN /\ resp' = [resp EXCEPT ![p] = ErrorResp("TypeError")]
             /\ UNCHANGED <<indexFile, acked>>
        ELSE LET updated == [index EXCEPT
                               !.items = putEntry(@, indexEntry(item)),
                               !.lastUpdated = item.createdAt]
             IN /\ indexFile' = writeFile(indexFile, stringify(updated), ok)
                /\ resp' = [resp EXCEPT ![p] =
                              IF ok THEN SavedResp(item.id)
                              ELSE ErrorResp("index write failed")]
                /\ acked' = IF ok THEN acked \cup {item.id} ELSE acked
  /\ pc' = [pc EXCEPT ![p] = "done"]
  /\ UNCHANGED <<records, nextId, local, tampers, agentVars>>

\* ------------------------------------------------------ search_knowledge

Threw == [threw |-> TRUE, results |-> <<>>]

\* scanEntries with `break` in the place of the first `continue`: a record that
\* does not load ends the loop.
RECURSIVE scanEntries_BreakOnNull(_, _, _, _, _)
scanEntries_BreakOnNull(entries, recs, unreadable, input, queryTokens) ==
  IF entries = <<>> THEN [threw |-> FALSE, results |-> <<>>]
  ELSE LET id == Head(entries).id
           full == loadKnowledgeFile(recs, id, id \notin unreadable)
           scope == IF input.scope = Undef THEN "all" ELSE input.scope
           rest == scanEntries_BreakOnNull(Tail(entries), recs, unreadable, input,
                                           queryTokens)
       IN IF ~full.found THEN [threw |-> FALSE, results |-> <<>>]
          ELSE IF ~filterByScope(full.item, scope, Undef) THEN rest
          ELSE IF tagsThrows(full.item, input.tags) THEN Threw
          ELSE IF ~filterByTags(full.item, input.tags) THEN rest
          ELSE IF scoreThrows(full.item) THEN Threw
          ELSE LET score == calculateRelevanceScore(full.item, queryTokens)
               IN IF score > 0 /\ ~rest.threw
                  THEN [threw |-> FALSE,
                        results |-> <<[item |-> full.item, score |-> score]>>
                                    \o rest.results]
                  ELSE rest

\* The loop over Object.entries(index.items).  `unreadable` are the ids whose
\* readFile is rejected during this search.
RECURSIVE scanEntries(_, _, _, _, _)
scanEntries(entries, recs, unreadable, input, queryTokens) ==
  IF entries = <<>> THEN [threw |-> FALSE, results |-> <<>>]
  ELSE LET id == Head(entries).id
           full == loadKnowledgeFile(recs, id, id \notin unreadable)
           scope == IF input.scope = Undef THEN "all" ELSE input.scope
           rest == scanEntries(Tail(entries), recs, unreadable, input, queryTokens)
       IN IF ~full.found THEN rest
          ELSE IF ~filterByScope(full.item, scope, Undef) THEN rest
          ELSE IF tagsThrows(full.item, input.tags) THEN Threw
          ELSE IF ~filterByTags(full.item, input.tags) THEN rest
          ELSE IF scoreThrows(full.item) THEN Threw
          ELSE LET score == calculateRelevanceScore(full.item, queryTokens)
               IN IF score > 0 /\ ~rest.threw
                  THEN [threw |-> FALSE,
                        results |-> <<[item |-> full.item, score |-> score]>>
                                    \o rest.results]
                  ELSE rest

\* insertByScore for the comparator (a, b) => a.score - b.score: ascending.
RECURSIVE insertByScore_Ascending(_, _)
insertByScore_Ascending(sorted, r) ==
  IF sorted = <<>> THEN <<r>>
  ELSE IF Head(sorted).score <= r.score
       THEN <<Head(sorted)>> \o insertByScore_Ascending(Tail(sorted), r)
       ELSE <<r>> \o sorted

\* insertByScore for a sort that puts the later of two equal scores first.
RECURSIVE insertByScore_LaterTieFirst(_, _)
insertByScore_LaterTieFirst(sorted, r) ==
  IF sorted = <<>> THEN <<r>>
  ELSE IF Head(sorted).score > r.score
       THEN <<Head(sorted)>> \o insertByScore_LaterTieFirst(Tail(sorted), r)
       ELSE <<r>> \o sorted

\* results.sort((a, b) => b.score - a.score): stable, descending.
RECURSIVE insertByScore(_, _)
insertByScore(sorted, r) ==
  IF sorted = <<>> THEN <<r>>
  ELSE IF Head(sorted).score >= r.score
       THEN <<Head(sorted)>> \o insertByScore(Tail(sorted), r)
       ELSE <<r>> \o sorted

RECURSIVE sortByScore(_)
sortByScore(results) ==
  IF results = <<>> THEN <<>>
  ELSE insertByScore(sortByScore(SubSeq(results, 1, Len(results) - 1)),
                     results[Len(results)])

\* Array.prototype.slice(0, end)
slice(seq, end) ==
  IF end >= 0 THEN SubSeq(seq, 1, Min(end, Len(seq)))
  ELSE SubSeq(seq, 1, IF Len(seq) + end > 0 THEN Len(seq) + end ELSE 0)

\* handleSearchKnowledge after `await loadIndex()`, as the dispatcher answers it.
searchResponse(index, recs, unreadable, input) ==
  IF ~IsText(input.query) \/ ~index.hasItems THEN ErrorResp("TypeError")
  ELSE LET scan == scanEntries(index.items, recs, unreadable, input,
                               tokenize(input.query))
           limit == IF input.limitGiven THEN input.limit ELSE DefaultLimit
       IN IF scan.threw THEN ErrorResp("TypeError")
          ELSE FoundResp(slice(sortByScore(scan.results), limit))

\* Entry of the call: `const index = await loadIndex()`
SearchLoadIndex(p, input, ok) ==
  /\ CanCall(p)
  /\ local' = [local EXCEPT ![p] =
                 [NoLocal EXCEPT !.tool = "search_knowledge", !.search = input,
                                 !.index = loadIndex(indexFile, ok)]]
  /\ pc' = [pc EXCEPT ![p] = "search_scan"]
  /\ resp' = [resp EXCEPT ![p] = NoResp]
  /\ UNCHANGED <<records, indexFile, nextId, acked, tampers, agentVars>>

\* The ids of the index for which loadKnowledgeFile returns null.
skippedIds(index, recs, unreadable) ==
  IF index.hasItems
  THEN {id \in IndexKeys(index) : ~loadKnowledgeFile(recs, id, id \notin unreadable).found}
  ELSE {}

\* The loop, the sort, the limit and the answer.  The records the loop reads
\* are written once and never rewritten by the server, so its awaits are taken
\* in one step.  local.skipped keeps which loads returned null.
SearchScan(p, unreadable) ==
  /\ pc[p] = "search_scan"
  /\ resp' = [resp EXCEPT ![p] =
                searchResponse(local[p].index, records, unreadable, local[p].search)]
  /\ local' = [local EXCEPT ![p].skipped = skippedIds(local[p].index, records, unreadable)]
  /\ pc' = [pc EXCEPT ![p] = "done"]
  /\ UNCHANGED <<records, indexFile, nextId, acked, tampers, agentVars>>

\* ----------------------------------------------------- reset_agent_state

ResetState(timestamp) == [currentTask |-> NullTask, lastUpdated |-> timestamp]
NoArtifacts == [artifacts |-> <<>>]
NoReviews == [pendingReviews |-> <<>>]

MissingState == [kind |-> "missing", value |-> ResetState(0)]
MissingArtifacts == [kind |-> "missing", value |-> NoArtifacts]
MissingReviews == [kind |-> "missing", value |-> NoReviews]
MissingStatistics == [kind |-> "missing", value |-> createDefaultStatistics(0)]

\* readJsonFile(STATISTICS_FILE, createDefaultStatistics())
loadStatistics(file, readOk, timestamp) ==
  IF readOk /\ parses(file) THEN parse(file) ELSE createDefaultStatistics(timestamp)

ResetResp == [isError |-> FALSE, text |-> "reset", id |-> 0, results |-> <<>>]

ResetSteps == {"reset_state", "reset_artifacts", "reset_reviews", "reset_statistics"}

\* ResetLoadStatistics of a handler that does not look at preserveStatistics
\* and always starts the statistics anew.
ResetLoadStatistics_NeverPreserves(p, input, ok) ==
  /\ CanCall(p)
  /\ local' = [local EXCEPT ![p] =
                 [NoLocal EXCEPT !.tool = "reset_agent_state", !.reset = input,
                                 !.timestamp = nextId,
                                 !.statistics = createDefaultStatistics(nextId)]]
  /\ lastReset' =
       [completed |-> FALSE,
        counters |-> IF input.preserveStatistics = "true"
                     THEN Counters(loadStatistics(statisticsFile, TRUE, nextId))
                     ELSE Counters(createDefaultStatistics(nextId)),
        timestamp |-> nextId]
  /\ pc' = [pc EXCEPT ![p] = "reset_state"]
  /\ resp' = [resp EXCEPT ![p] = NoResp]
  /\ UNCHANGED <<records, indexFile, nextId, acked, tampers,
                 stateDirVars, brainVars, clock, lastBoundary>>

\* Entry of the call, up to the statistics the handler is going to write: those
\* of the file with a new sessionStartedAt when preserveStatistics is true, the
\* default ones otherwise.  The timestamp is the clock reading nextId.
ResetLoadStatistics(p, input, ok) ==
  /\ CanCall(p)
  /\ LET preserveStats == input.preserveStatistics = "true"
         statistics ==
           IF preserveStats
           THEN [loadStatistics(statisticsFile, ok, nextId)
                   EXCEPT !.sessionStartedAt = nextId]
           ELSE createDefaultStatistics(nextId)
     IN local' = [local EXCEPT ![p] =
                    [NoLocal EXCEPT !.tool = "reset_agent_state", !.reset = input,
                                    !.timestamp = nextId, !.statistics = statistics,
                                    !.rejected = IF preserveStats /\ ~ok
                                                 THEN {"readStatistics"} ELSE {}]]
  /\ lastReset' =
       IF input.preserveStatistics = "true" /\ ~ok
       THEN NoReset
       ELSE [completed |-> FALSE,
             counters |-> IF input.preserveStatistics = "true"
                          THEN Counters(loadStatistics(statisticsFile, TRUE, nextId))
                          ELSE Counters(createDefaultStatistics(nextId)),
             timestamp |-> nextId]
  /\ pc' = [pc EXCEPT ![p] = "reset_state"]
  /\ resp' = [resp EXCEPT ![p] = NoResp]
  /\ UNCHANGED <<records, indexFile, nextId, acked, tampers,
                 stateDirVars, brainVars, clock, lastBoundary>>

\* ResetWriteFile for a handler that keeps the knowledge only when it is asked
\* to: without preserveKnowledge = true the index is removed with the state.
ResetWriteFile_ClearsKnowledge(p, ok) ==
  /\ pc[p] \in ResetSteps
  /\ stateFile' = IF pc[p] = "reset_state"
                  THEN writeFile(stateFile, stringify(ResetState(local[p].timestamp)), ok)
                  ELSE stateFile
  /\ artifactsFile' = IF pc[p] = "reset_artifacts"
                      THEN writeFile(artifactsFile, stringify(NoArtifacts), ok)
                      ELSE artifactsFile
  /\ reviewsFile' = IF pc[p] = "reset_reviews"
                    THEN writeFile(reviewsFile, stringify(NoReviews), ok)
                    ELSE reviewsFile
  /\ statisticsFile' = IF pc[p] = "reset_statistics"
                       THEN writeFile(statisticsFile, stringify(local[p].statistics), ok)
                       ELSE statisticsFile
  /\ indexFile' = IF pc[p] = "reset_state" /\ local[p].reset.preserveKnowledge # "true"
                  THEN MissingIndex
                  ELSE indexFile
  /\ pc' = [pc EXCEPT ![p] =
              IF ~ok \/ pc[p] = "reset_statistics" THEN "done"
              ELSE IF pc[p] = "reset_state" THEN "reset_artifacts"
              ELSE IF pc[p] = "reset_artifacts" THEN "reset_reviews"
              ELSE "reset_statistics"]
  /\ resp' = [resp EXCEPT ![p] =
                IF ~ok THEN ErrorResp("state write failed")
                ELSE IF pc[p] = "reset_statistics" THEN ResetResp
                ELSE NoResp]
  /\ lastBoundary' = IF pc[p] = "reset_state" /\ ok THEN NoBoundary ELSE lastBoundary
  /\ lastReset' = IF ~ok \/ local[p].rejected # {} THEN NoReset
                  ELSE IF pc[p] = "reset_statistics"
                  THEN [lastReset EXCEPT !.completed = TRUE]
                  ELSE lastReset
  /\ UNCHANGED <<records, nextId, local, acked, tampers, brainVars, clock>>

\* The four `await writeJsonFile(...)` of the handler, one per step: state,
\* artifacts, reviews, statistics.  A rejected mkdir or writeFile leaves the
\* handler through the dispatcher's catch, the files written so far stay.
ResetWriteFile(p, ok) ==
  /\ pc[p] \in ResetSteps
  /\ stateFile' = IF pc[p] = "reset_state"
                  THEN writeFile(stateFile, stringify(ResetState(local[p].timestamp)), ok)
                  ELSE stateFile
  /\ artifactsFile' = IF pc[p] = "reset_artifacts"
                      THEN writeFile(artifactsFile, stringify(NoArtifacts), ok)
                      ELSE artifactsFile
  /\ reviewsFile' = IF pc[p] = "reset_reviews"
                    THEN writeFile(reviewsFile, stringify(NoReviews), ok)
                    ELSE reviewsFile
  /\ statisticsFile' = IF pc[p] = "reset_statistics"
                       THEN writeFile(statisticsFile, stringify(local[p].statistics), ok)
                       ELSE statisticsFile
  /\ pc' = [pc EXCEPT ![p] =
              IF ~ok \/ pc[p] = "reset_statistics" THEN "done"
              ELSE IF pc[p] = "reset_state" THEN "reset_artifacts"
              ELSE IF pc[p] = "reset_artifacts" THEN "reset_reviews"
              ELSE "reset_statistics"]
  /\ resp' = [resp EXCEPT ![p] =
                IF ~ok THEN ErrorResp("state write failed")
                ELSE IF pc[p] = "reset_statistics" THEN ResetResp
                ELSE NoResp]
  /\ lastBoundary' = IF pc[p] = "reset_state" /\ ok THEN NoBoundary ELSE lastBoundary
  /\ lastReset' = IF ~ok \/ local[p].rejected # {} THEN NoReset
                  ELSE IF pc[p] = "reset_statistics"
                  THEN [lastReset EXCEPT !.completed = TRUE]
                  ELSE lastReset
  /\ UNCHANGED <<records, indexFile, nextId, local, acked, tampers, brainVars, clock>>

\* ------------------------------------------- create_artifact, update_artifact

\* The storage operations the call in slot p ran and the file system rejected.
Rejections(mkdirRan, mkdirOk, readRan, readOk, writeRan, writeOk, saveRan, saveOk) ==
  (IF mkdirRan /\ ~mkdirOk THEN {"mkdir"} ELSE {})
    \cup (IF readRan /\ ~readOk THEN {"readManifest"} ELSE {})
    \cup (IF writeRan /\ ~writeOk THEN {"writeFile"} ELSE {})
    \cup (IF saveRan /\ ~saveOk THEN {"saveManifest"} ELSE {})

\* createdEntry of a handler that stamps createdAt anew when it overwrites.
createdEntry_NewCreatedAt(args, existingArtifact, now) ==
  [type |-> args.type,
   summary |-> args.summary,
   complexity |-> args.complexity,
   isArtifact |-> IF args.isArtifact = Undef THEN "true" ELSE args.isArtifact,
   createdAt |-> now,
   updatedAt |-> now,
   versions |-> Append(existingArtifact.versions,
                       [timestamp |-> now, hash |-> getContentHash(args.content)])]

\* manifest.artifacts[args.type] = {...} of handleCreateArtifact.
createdEntry(args, existingArtifact, now) ==
  [type |-> args.type,
   summary |-> args.summary,
   complexity |-> args.complexity,
   isArtifact |-> IF args.isArtifact = Undef THEN "true" ELSE args.isArtifact,
   createdAt |-> IF existingArtifact # NoArtifact THEN existingArtifact.createdAt ELSE now,
   updatedAt |-> now,
   versions |->
     IF existingArtifact # NoArtifact
     THEN Append(existingArtifact.versions,
                 [timestamp |-> now, hash |-> getContentHash(args.content)])
     ELSE << [timestamp |-> now, hash |-> getContentHash(args.content)] >>]

\* handleCreateArtifact: mkdir of the brain directory, the manifest read (its
\* errors swallowed), getContentHash (throws for a content that is no string),
\* the refusal for an existing type without overwrite, the file write, the
\* manifest write.  A rejected mkdir or write leaves through the dispatcher's
\* catch with what was written before it.
CreateArtifact(p, args, mkdirOk, readOk, writeOk, saveOk) ==
  /\ CanCall(p)
  /\ clock < MaxClock
  /\ LET manifest == loadManifest(manifestFile, readOk)
         now == clock + 1
         existingArtifact == manifest.artifacts[args.type]
         threw == ~mkdirOk \/ args.content = Undef
         refused == ~threw /\ existingArtifact # NoArtifact /\ args.overwrite # "true"
         writeRan == ~threw /\ ~refused
         wrote == writeRan /\ writeOk
         saved == wrote /\ saveOk
         rejected == Rejections(TRUE, mkdirOk, mkdirOk, readOk,
                                writeRan, writeOk, wrote, saveOk)
     IN \* no outcome is drawn for an operation the call does not run
        /\ (mkdirOk \/ readOk) /\ (writeRan \/ writeOk) /\ (wrote \/ saveOk)
        /\ artifactFiles' =
             IF wrote THEN [artifactFiles EXCEPT ![args.type] = args.content]
             ELSE artifactFiles
        /\ fileWrites' =
             IF wrote THEN [fileWrites EXCEPT ![args.type] = @ + 1] ELSE fileWrites
        /\ manifestFile' =
             IF saved
             THEN stringify([manifest EXCEPT
                    !.artifacts[args.type] = createdEntry(args, existingArtifact, now)])
             ELSE manifestFile
        /\ clock' = IF mkdirOk THEN now ELSE clock
        /\ faulted' = (faulted \/ rejected # {})
        /\ local' = [local EXCEPT ![p] =
                       [NoLocal EXCEPT !.tool = "create_artifact", !.args = args,
                                       !.rejected = rejected]]
        /\ resp' = [resp EXCEPT ![p] =
             IF ~mkdirOk THEN ErrorResp("mkdir failed")
             ELSE IF args.content = Undef THEN ErrorResp("content is no string")
             ELSE IF refused THEN ArtifactResp("already exists")
             ELSE IF ~writeOk THEN ErrorResp("artifact write failed")
             ELSE IF ~saveOk THEN ErrorResp("manifest write failed")
             ELSE IF args.overwrite = "true" /\ existingArtifact # NoArtifact
             THEN ArtifactResp("Overwrote")
             ELSE ArtifactResp("Created")]
  /\ pc' = [pc EXCEPT ![p] = "done"]
  /\ UNCHANGED <<records, indexFile, nextId, acked, tampers,
                 stateDirVars, lastBoundary, lastReset>>

\* updatedEntry of a handler that forgets to push the new version.
updatedEntry_NoPush(args, existingArtifact, now) ==
  [existingArtifact EXCEPT !.updatedAt = now]

\* existingArtifact.updatedAt = now; existingArtifact.versions.push(...).
updatedEntry(args, existingArtifact, now) ==
  [existingArtifact EXCEPT
     !.updatedAt = now,
     !.versions = Append(@, [timestamp |-> now, hash |-> getContentHash(args.content)])]

\* sameAsLastVersion of a handler that never compares hashes.
sameAsLastVersion_Never(existingArtifact, content) == FALSE

\* `lastVersion && lastVersion.hash === contentHash`
sameAsLastVersion(existingArtifact, content) ==
  /\ Len(existingArtifact.versions) > 0
  /\ existingArtifact.versions[Len(existingArtifact.versions)].hash
       = getContentHash(content)

\* handleUpdateArtifact: the manifest read (its errors swallowed), the refusal
\* for a type that is no key, getContentHash, the refusal for content with the
\* hash of the last version, the file write, the manifest write.  The read of
\* the old content only feeds the "Changes:" line of the answer.  The handler
\* reads type, content and projectPath of its arguments and nothing else.
UpdateArtifact(p, args, readOk, writeOk, saveOk) ==
  /\ CanCall(p)
  /\ clock < MaxClock
  /\ LET manifest == loadManifest(manifestFile, readOk)
         now == clock + 1
         existingArtifact == manifest.artifacts[args.type]
         exists == existingArtifact # NoArtifact
         threw == exists /\ args.content = Undef
         same == exists /\ ~threw /\ sameAsLastVersion(existingArtifact, args.content)
         writeRan == exists /\ ~threw /\ ~same
         wrote == writeRan /\ writeOk
         saved == wrote /\ saveOk
         rejected == Rejections(FALSE, TRUE, TRUE, readOk,
                                writeRan, writeOk, wrote, saveOk)
     IN \* no outcome is drawn for an operation the call does not run
        /\ (writeRan \/ writeOk) /\ (wrote \/ saveOk)
        /\ artifactFiles' =
             IF wrote THEN [artifactFiles EXCEPT ![args.type] = args.content]
             ELSE artifactFiles
        /\ fileWrites' =
             IF wrote THEN [fileWrites EXCEPT ![args.type] = @ + 1] ELSE fileWrites
        /\ manifestFile' =
             IF saved
             THEN stringify([manifest EXCEPT
                    !.artifacts[args.type] = updatedEntry(args, existingArtifact, now)])
             ELSE manifestFile
        /\ clock' = IF exists THEN now ELSE clock
        /\ faulted' = (faulted \/ rejected # {})
        /\ local' = [local EXCEPT ![p] =
                       [NoLocal EXCEPT !.tool = "update_artifact", !.args = args,
                                       !.rejected = rejected]]
        /\ resp' = [resp EXCEPT ![p] =
             IF ~exists THEN ArtifactResp("does not exist")
             ELSE IF threw THEN ErrorResp("content is no string")
             ELSE IF same THEN ArtifactResp("No changes detected")
             ELSE IF ~writeOk THEN ErrorResp("artifact write failed")
             ELSE IF ~saveOk THEN ErrorResp("manifest write failed")
             ELSE ArtifactResp("Updated")]
  /\ pc' = [pc EXCEPT ![p] = "done"]
  /\ UNCHANGED <<records, indexFile, nextId, acked, tampers,
                 stateDirVars, lastBoundary, lastReset>>

\* ------------------------------------------------------------ task_boundary

\* Every read or parse error gives the state without task.
loadState(file, readOk, timestamp) ==
  IF readOk /\ parses(file) THEN parse(file) ELSE ResetState(timestamp)

\* `state.currentTask?.mode ?? null`
previousModeOf(state) ==
  IF state.currentTask.null THEN Null ELSE state.currentTask.mode

\* The modeHistory of a handler that records every call, also one that repeats
\* the mode.
pushModeChange_Always(state, Mode, timestamp) ==
  Append(state.currentTask.modeHistory,
         [from |-> previousModeOf(state), to |-> Mode, timestamp |-> timestamp])

\* `state.currentTask?.modeHistory ?? []` and the push when the mode differs.
pushModeChange(state, Mode, timestamp) ==
  IF previousModeOf(state) # Mode
  THEN Append(state.currentTask.modeHistory,
              [from |-> previousModeOf(state), to |-> Mode, timestamp |-> timestamp])
  ELSE state.currentTask.modeHistory

\* taskState of a handler that keeps the mode of the task it found.
taskStateOf_KeepsMode(args, state, timestamp) ==
  [null |-> FALSE,
   taskName |-> args.TaskName,
   mode |-> IF state.currentTask.null THEN args.Mode ELSE state.currentTask.mode,
   taskStatus |-> args.TaskStatus,
   taskSummary |-> args.TaskSummary,
   predictedTaskSize |-> args.PredictedTaskSize,
   createdAt |-> IF state.currentTask.null THEN timestamp ELSE state.currentTask.createdAt,
   updatedAt |-> timestamp,
   modeHistory |-> state.currentTask.modeHistory]

taskStateOf(args, state, timestamp) ==
  [null |-> FALSE,
   taskName |-> args.TaskName,
   mode |-> args.Mode,
   taskStatus |-> args.TaskStatus,
   taskSummary |-> args.TaskSummary,
   predictedTaskSize |-> args.PredictedTaskSize,
   createdAt |-> IF state.currentTask.null THEN timestamp ELSE state.currentTask.createdAt,
   updatedAt |-> timestamp,
   modeHistory |-> pushModeChange(state, args.Mode, timestamp)]

\* The three checks at the head of handleTaskBoundary.
BoundaryInvalid(args) ==
  \/ args.TaskName = Undef
  \/ args.Mode \notin Modes
  \/ args.TaskStatus = Undef

\* The handler builds its own answer: isError for arguments it does not take.
BoundaryResp == [isError |-> FALSE, text |-> "Task Boundary", id |-> 0, results |-> <<>>]

\* handleTaskBoundary: the checks of the arguments, the state read (its errors
\* swallowed), the new task state with its mode history, the state write.
TaskBoundary(p, args, readOk, writeOk) ==
  /\ CanCall(p)
  /\ clock < MaxClock
  /\ LET timestamp == clock + 1
         state == loadState(stateFile, readOk, timestamp)
         valid == ~BoundaryInvalid(args)
         saved == valid /\ writeOk
     IN \* no outcome is drawn for an operation the call does not run
        /\ (valid \/ (readOk /\ writeOk))
        /\ stateFile' =
             IF saved
             THEN stringify([currentTask |-> taskStateOf(args, state, timestamp),
                             lastUpdated |-> timestamp])
             ELSE stateFile
        /\ lastBoundary' = IF saved THEN args ELSE lastBoundary
        /\ lastReset' = IF saved THEN [lastReset EXCEPT !.completed = FALSE]
                        ELSE lastReset
        /\ clock' = IF valid THEN timestamp ELSE clock
        /\ local' = [local EXCEPT ![p] =
                       [NoLocal EXCEPT !.tool = "task_boundary", !.boundary = args,
                          !.rejected = IF ~valid THEN {}
                                       ELSE (IF readOk THEN {} ELSE {"readState"})
                                              \cup (IF writeOk THEN {} ELSE {"saveState"})]]
        /\ resp' = [resp EXCEPT ![p] =
             IF args.TaskName = Undef THEN ErrorResp("TaskName is required")
             ELSE IF args.Mode \notin Modes THEN ErrorResp("Mode is required")
             ELSE IF args.TaskStatus = Undef THEN ErrorResp("TaskStatus is required")
             ELSE IF ~writeOk THEN ErrorResp("state write failed")
             ELSE BoundaryResp]
  /\ pc' = [pc EXCEPT ![p] = "done"]
  /\ UNCHANGED <<records, indexFile, nextId, acked, tampers,
                 artifactsFile, reviewsFile, statisticsFile, brainVars>>

\* ---------------------------------------------------------- get_agent_state

\* readJsonFile(STATE_FILE, null): a state that is null has no currentTask and
\* no lastUpdated (0 here).
loadTaskBoundaryState(file, readOk) ==
  IF readOk /\ parses(file) THEN parse(file) ELSE ResetState(0)

\* Array.prototype.slice(0, n) for n >= 0.
firstN(seq, n) == SubSeq(seq, 1, Min(n, Len(seq)))

\* Array.prototype.slice(-n)
lastN(seq, n) == SubSeq(seq, Len(seq) - Min(n, Len(seq)) + 1, Len(seq))

loadArtifacts(file, readOk) ==
  firstN((IF readOk /\ parses(file) THEN parse(file) ELSE NoArtifacts).artifacts,
         MAX_RECENT_ARTIFACTS)

loadPendingReviews(file, readOk) ==
  (IF readOk /\ parses(file) THEN parse(file) ELSE NoReviews).pendingReviews

extractModeHistory(taskState) ==
  LET history == taskState.currentTask.modeHistory
  IN lastN([i \in 1..Len(history) |->
              [mode |-> history[i].to, timestamp |-> history[i].timestamp,
               taskName |-> taskState.currentTask.taskName]],
           MAX_MODE_HISTORY)

determineCurrentMode(taskState) ==
  IF taskState.currentTask.null THEN "IDLE"
  ELSE IF taskState.currentTask.mode \in Modes THEN taskState.currentTask.mode
  ELSE "IDLE"

\* {name, status, summary, startedAt} of the task, or null.
extractCurrentTask(taskState) ==
  IF taskState.currentTask.null THEN NoCurrentTask
  ELSE [null |-> FALSE,
        name |-> taskState.currentTask.taskName,
        status |-> taskState.currentTask.taskStatus,
        summary |-> taskState.currentTask.taskSummary,
        startedAt |-> taskState.currentTask.createdAt]

StateResp == [isError |-> FALSE, text |-> "state", id |-> 0, results |-> <<>>]

\* handleGetAgentState: four reads, each with its errors swallowed, and the
\* answer built from them; no file is written.
GetAgentState(p, stateOk, artifactsOk, reviewsOk, statisticsOk) ==
  /\ CanCall(p)
  /\ LET taskState == loadTaskBoundaryState(stateFile, stateOk)
         agentState ==
           [currentMode |-> determineCurrentMode(taskState),
            currentTask |-> extractCurrentTask(taskState),
            recentArtifacts |-> loadArtifacts(artifactsFile, artifactsOk),
            modeHistory |-> extractModeHistory(taskState),
            pendingReviews |-> loadPendingReviews(reviewsFile, reviewsOk),
            statistics |-> loadStatistics(statisticsFile, statisticsOk, clock),
            lastUpdated |-> IF taskState.lastUpdated = 0 THEN clock
                            ELSE taskState.lastUpdated]
     IN local' = [local EXCEPT ![p] =
                    [NoLocal EXCEPT !.tool = "get_agent_state",
                       !.agentState = agentState,
                       !.rejected =
                         (IF stateOk THEN {} ELSE {"readState"})
                           \cup (IF artifactsOk THEN {} ELSE {"readArtifacts"})
                           \cup (IF reviewsOk THEN {} ELSE {"readReviews"})
                           \cup (IF statisticsOk THEN {} ELSE {"readStatistics"})]]
  /\ resp' = [resp EXCEPT ![p] = StateResp]
  /\ pc' = [pc EXCEPT ![p] = "done"]
  /\ UNCHANGED <<records, indexFile, nextId, acked, tampers, agentVars>>

\* ------------------------------------------------------------ dispatcher

\* A request whose name is no key of toolHandlers: the dispatcher answers
\* "Unknown tool: <name>" when the lookup gives undefined, and calls what the
\* lookup found otherwise.
CallOtherName(p, name) ==
  /\ CanCall(p)
  /\ name \notin ToolNames
  /\ local' = [local EXCEPT ![p] = [NoLocal EXCEPT !.tool = name]]
  /\ resp' = [resp EXCEPT ![p] =
                IF name \in InheritedNames THEN EchoResp ELSE ErrorResp("Unknown tool")]
  /\ pc' = [pc EXCEPT ![p] = "done"]
  /\ UNCHANGED <<records, indexFile, nextId, acked, tampers, agentVars>>

\* -------------------------------------------------------- specifications

\* No file in STATE_DIR.
InitAgentFiles ==
  /\ stateFile = MissingState
  /\ artifactsFile = MissingArtifacts
  /\ reviewsFile = MissingReviews
  /\ statisticsFile = MissingStatistics
  /\ manifestFile = MissingManifest
  /\ artifactFiles = [t \in ArtifactTypes |-> NoFile]
  /\ clock = 0
  /\ lastBoundary = NoBoundary
  /\ lastReset = NoReset
  /\ fileWrites = [t \in ArtifactTypes |-> 0]
  /\ faulted = FALSE

Init ==
  /\ records = [id \in Ids |-> MissingRecord]
  /\ indexFile = MissingIndex
  /\ nextId = 1
  /\ pc = [p \in Calls |-> "idle"]
  /\ local = [p \in Calls |-> NoLocal]
  /\ resp = [p \in Calls |-> NoResp]
  /\ acked = {}
  /\ tampers = 0
  /\ InitAgentFiles

\* One step of the call in slot p, its arguments drawn from the given sets and
\* the outcome of each file operation from BOOLEAN.
Step(p, saveInputs, searchInputs) ==
  \/ \E input \in saveInputs, ok \in BOOLEAN : SaveKnowledgeFile(p, input, ok)
  \/ \E ok \in BOOLEAN : SaveLoadIndex(p, ok)
  \/ \E ok \in BOOLEAN : SaveIndex(p, ok)
  \/ \E input \in searchInputs, ok \in BOOLEAN : SearchLoadIndex(p, input, ok)
  \/ \E unreadable \in SUBSET Ids : SearchScan(p, unreadable)

\* The client sends one request at a time.
Next == Step("c1", SaveInputs, SearchInputs)

Spec == Init /\ [][Next]_vars

\* Saves with every argument of SaveInputs, one call at a time, with a single
\* search between them: no search changes a file, whatever it asks for.
NextSaves == Step("c1", SaveInputs, {BaseSearch})

SpecSaves == Init /\ [][NextSaves]_vars

\* Requests overlap: the dispatcher starts a handler for each request it
\* receives, and a handler gives way to the others at each await.
ConcSaveInputs == {BaseSave, [BaseSave EXCEPT !.content = UndefText]}
ConcSearchInputs == {BaseSearch}

NextConc ==
  \/ \E p \in Calls : Step(p, ConcSaveInputs, ConcSearchInputs)
  \/ \E p \in Calls, name \in OtherNames : CallOtherName(p, name)

SpecConc == Init /\ [][NextConc]_vars

\* Requests overlap and the file system rejects nothing: what the calls do to
\* each other is all there is.
OverlapSaveInputs == {BaseSave, [BaseSave EXCEPT !.title = <<"k">>, !.tags = << <<"a">> >>]}

NextOverlap ==
  \E p \in Calls :
    \/ \E input \in OverlapSaveInputs : SaveKnowledgeFile(p, input, TRUE)
    \/ SaveLoadIndex(p, TRUE)
    \/ SaveIndex(p, TRUE)
    \/ SearchLoadIndex(p, BaseSearch, TRUE)
    \/ SearchScan(p, {})

SpecOverlap == Init /\ [][NextOverlap]_vars

\* 12 times the token "b" and then the token "k".
ContentMany == Repeat(<<"b", " ">>, 12) \o <<"k">>

\* Saves of items that differ in title, tags, content and scope, one of them
\* without title, and searches that differ in query, scope, tags and limit.
RankSaveInputs ==
  { BaseSave,
    [BaseSave EXCEPT !.title = UndefText],
    [BaseSave EXCEPT !.title = <<"k">>, !.content = <<"b", " ", "k">>,
                     !.tags = << <<"a">>, <<"B">> >>,
                     !.scope = "project", !.projectPath = "/p1"],
    [BaseSave EXCEPT !.title = <<"k", "k", " ", "b">>, !.content = <<"k">>,
                     !.tags = << <<"k", "k">> >>],
    [BaseSave EXCEPT !.content = ContentMany, !.tags = << <<"K">> >>,
                     !.scope = "project", !.projectPath = "/p1"] }

RankSearchInputs ==
  { BaseSearch,
    [BaseSearch EXCEPT !.query = <<"k", " ", "k">>],
    [BaseSearch EXCEPT !.query = <<"b">>],
    [BaseSearch EXCEPT !.query = <<"-">>],
    [BaseSearch EXCEPT !.scope = "global"],
    [BaseSearch EXCEPT !.scope = "project"],
    [BaseSearch EXCEPT !.scope = "all", !.tags = <<>>],
    [BaseSearch EXCEPT !.tags = << <<"b">>, <<"_">> >>],
    [BaseSearch EXCEPT !.tags = << <<"_">>, <<"1">> >>],
    [BaseSearch EXCEPT !.limitGiven = TRUE, !.limit = 0],
    [BaseSearch EXCEPT !.limitGiven = TRUE, !.limit = 1],
    [BaseSearch EXCEPT !.limitGiven = TRUE, !.limit = 5],
    [BaseSearch EXCEPT !.limitGiven = TRUE, !.limit = 0 - 1] }

NextRank == Step("c1", RankSaveInputs, RankSearchInputs)

SpecRank == Init /\ [][NextRank]_vars

\* Saves, searches and resets of the agent state, one call at a time.
AgentSaveInputs == {[BaseSave EXCEPT !.scope = "project", !.projectPath = "/p1"]}

AgentSearchInputs == {BaseSearch, [BaseSearch EXCEPT !.scope = "global"]}

NextAgent ==
  \/ Step("c1", AgentSaveInputs, AgentSearchInputs)
  \/ \E input \in ResetInputs, ok \in BOOLEAN : ResetLoadStatistics("c1", input, ok)
  \/ \E ok \in BOOLEAN : ResetWriteFile("c1", ok)

SpecAgent == Init /\ [][NextAgent]_vars

\* Artifacts of one project created, updated and looked for in the agent
\* state, one call at a time, each storage operation accepted or rejected.
NextArtifacts ==
  \/ \E args \in CreateInputs, mkdirOk, readOk, writeOk, saveOk \in BOOLEAN :
       CreateArtifact("c1", args, mkdirOk, readOk, writeOk, saveOk)
  \/ \E args \in UpdateInputs, readOk, writeOk, saveOk \in BOOLEAN :
       UpdateArtifact("c1", args, readOk, writeOk, saveOk)
  \/ \E artifactsOk, reviewsOk \in BOOLEAN :
       GetAgentState("c1", TRUE, artifactsOk, reviewsOk, TRUE)

SpecArtifacts == Init /\ [][NextArtifacts]_vars

\* Counters another writer left in statistics.json: the server itself only
\* ever writes the ones it read or zeros.
CountedStatistics ==
  [toolCallsInSession |-> 7, tasksCompleted |-> 2, filesModified |-> 3,
   testsRun |-> 1, errorsEncountered |-> 4, sessionStartedAt |-> 0]

\* STATE_DIR empty, or holding the statistics of an earlier session.
InitTask ==
  /\ records = [id \in Ids |-> MissingRecord]
  /\ indexFile = MissingIndex
  /\ nextId = 1
  /\ pc = [p \in Calls |-> "idle"]
  /\ local = [p \in Calls |-> NoLocal]
  /\ resp = [p \in Calls |-> NoResp]
  /\ acked = {}
  /\ tampers = 0
  /\ stateFile = MissingState
  /\ artifactsFile = MissingArtifacts
  /\ reviewsFile = MissingReviews
  /\ statisticsFile \in {MissingStatistics, stringify(CountedStatistics)}
  /\ manifestFile = MissingManifest
  /\ artifactFiles = [t \in ArtifactTypes |-> NoFile]
  /\ clock = 0
  /\ lastBoundary = NoBoundary
  /\ lastReset = NoReset
  /\ fileWrites = [t \in ArtifactTypes |-> 0]
  /\ faulted = FALSE

TaskResetInputs ==
  { [BaseReset EXCEPT !.preserveStatistics = ps] : ps \in {Undef, "true", "false"} }

\* Task boundaries, resets and reads of the agent state, one call at a time.
NextTask ==
  \/ \E args \in BoundaryInputs, readOk, writeOk \in BOOLEAN :
       TaskBoundary("c1", args, readOk, writeOk)
  \/ \E input \in TaskResetInputs, ok \in BOOLEAN : ResetLoadStatistics("c1", input, ok)
  \/ \E ok \in BOOLEAN : ResetWriteFile("c1", ok)
  \/ \E stateOk, statisticsOk \in BOOLEAN :
       GetAgentState("c1", stateOk, TRUE, TRUE, statisticsOk)

SpecTask == InitTask /\ [][NextTask]_vars

\* The server started on a KNOWLEDGE_DIR in which an earlier run saved one
\* item, and searches with every query text of up to MaxTextLen characters:
\* upper and lower case, underscore, blank and punctuation.
TextChars == {"A", "b", "_", " ", "-"}

Texts(n) == UNION {[1..m -> TextChars] : m \in 0..n}

TokenSearchInputs == {[BaseSearch EXCEPT !.query = text] : text \in Texts(MaxTextLen)}

InitTokens ==
  /\ records = [id \in Ids |->
                  IF id = 1 THEN stringify(newItem(BaseSave, 1, 1)) ELSE MissingRecord]
  /\ indexFile = stringify([EmptyIndex EXCEPT
                              !.items = <<indexEntry(newItem(BaseSave, 1, 1))>>,
                              !.lastUpdated = 1])
  /\ nextId = 2
  /\ pc = [p \in Calls |-> "idle"]
  /\ local = [p \in Calls |-> NoLocal]
  /\ resp = [p \in Calls |-> NoResp]
  /\ acked = {1}
  /\ tampers = 0
  /\ InitAgentFiles

NextTokens ==
  \/ \E input \in TokenSearchInputs, ok \in BOOLEAN : SearchLoadIndex("c1", input, ok)
  \/ \E unreadable \in SUBSET Ids : SearchScan("c1", unreadable)

SpecTokens == InitTokens /\ [][NextTokens]_vars

\* The files of KNOWLEDGE_DIR are changed from outside the server: a record is
\* deleted, overwritten with text that is no JSON, or with JSON that lacks a
\* member; the index likewise.
TamperKinds == {"missing", "garbage", "no_title", "no_tags"}

tamperedRecord(file, kind) ==
  CASE kind = "missing" -> MissingRecord
    [] kind = "garbage" -> GarbageRecord
    [] kind = "no_title" -> stringify([parse(file) EXCEPT !.title = UndefText])
    [] OTHER -> stringify([parse(file) EXCEPT !.tags = UndefTags])

TamperRecord(id, kind) ==
  /\ \A p \in Calls : CanCall(p)
  /\ tampers < MaxTampers
  /\ parses(records[id])
  /\ records' = [records EXCEPT ![id] = tamperedRecord(@, kind)]
  /\ tampers' = tampers + 1
  /\ UNCHANGED <<indexFile, nextId, pc, local, resp, acked, agentVars>>

TamperedIndexes ==
  { MissingIndex, GarbageIndex,
    stringify([hasItems |-> FALSE, items |-> <<>>, lastUpdated |-> 0]) }

TamperIndex(file) ==
  /\ \A p \in Calls : CanCall(p)
  /\ tampers < MaxTampers
  /\ parses(indexFile)
  /\ file \in TamperedIndexes
  /\ indexFile' = file
  /\ tampers' = tampers + 1
  /\ UNCHANGED <<records, nextId, pc, local, resp, acked, agentVars>>

TamperSaveInputs ==
  { BaseSave,
    [BaseSave EXCEPT !.content = ContentMany, !.tags = << <<"K">> >>,
                     !.scope = "project", !.projectPath = "/p1"] }

TamperSearchInputs == {BaseSearch, [BaseSearch EXCEPT !.tags = << <<"k">> >>]}

NextTamper ==
  \/ Step("c1", TamperSaveInputs, TamperSearchInputs)
  \/ \E id \in Ids, kind \in TamperKinds : TamperRecord(id, kind)
  \/ \E file \in TamperedIndexes : TamperIndex(file)

SpecTamper == Init /\ [][NextTamper]_vars

\* ------------------------------------------------------------------ claims

SaveDone(p) == local[p].tool = "save_knowledge" /\ pc[p] = "done"
SearchDone(p) == local[p].tool = "search_knowledge" /\ pc[p] = "done"

\* C1: in every reachable state, under any interleaving of save_knowledge and
\* search_knowledge calls and with record or index writes that fail, every id
\* that is a key of the persisted index has a persisted full record file.
C1_IndexedIdsHaveRecords == \A id \in PersistedKeys : parses(records[id])

\* One save is indexed while another call's record write has failed.
C1_Witness ==
  \E p, q \in Calls :
    /\ p # q
    /\ resp[p].text = "saved"
    /\ local[p].item.id \in PersistedKeys
    /\ resp[q].text = "record write failed"
    /\ ~parses(records[local[q].item.id])

SaveArgsInvalid(input) == ~IsText(input.title) \/ ~IsText(input.content)

\* C2: a save_knowledge call in which title or content is absent fails with an
\* error returned to the caller and has no side effect: no record file is
\* written and the index is unchanged.
C2_InvalidSaveRejectedWithoutEffect ==
  \A p \in Calls :
    (local[p].tool = "save_knowledge" /\ SaveArgsInvalid(local[p].save))
      => /\ ~parses(records[local[p].item.id])
         /\ local[p].item.id \notin PersistedKeys
         /\ (pc[p] = "done" => resp[p].isError)

\* C3: the index can only grow: with calls executed one at a time, an id that
\* is a key of the persisted index remains a key after every later step, also
\* after a save whose read of the index file fails.
C3_IndexOnlyGrows == [][PersistedKeys \subseteq PersistedKeys']_vars

\* C4: a search_knowledge call that has a query string never answers with an
\* error, whatever earlier save_knowledge calls have put into the store.
C4_SearchWithQueryNeverErrors ==
  \A p \in Calls :
    (SearchDone(p) /\ IsText(local[p].search.query)) => ~resp[p].isError

CallerHasProject(input) ==
  input.scope = "project" /\ input.projectPath \notin {Undef, ""}

\* C5: a search_knowledge call with scope=project made for a caller project
\* path returns only items of scope project whose projectPath equals that path.
C5_ProjectSearchKeepsToCallerPath ==
  \A p \in Calls :
    (SearchDone(p) /\ CallerHasProject(local[p].search))
      => \A k \in 1..Len(resp[p].results) :
           /\ resp[p].results[k].item.scope = "project"
           /\ resp[p].results[k].item.projectPath = local[p].search.projectPath

WellScoped(item) ==
  /\ (item.projectPath # Undef) <=> (item.scope = "project")
  /\ item.scope = "project" => item.projectPath # ""

\* C6: for every item save_knowledge has persisted, as full record and as index
\* entry, projectPath is present exactly if scope = project, and a project
\* item's projectPath is not empty.
C6_ProjectPathIffProjectScope ==
  /\ \A id \in Ids : parses(records[id]) => WellScoped(parse(records[id]))
  /\ parses(indexFile) =>
       \A i \in 1..Len(parse(indexFile).items) : WellScoped(parse(indexFile).items[i])

InSave(p) == pc[p] \in {"save_loadIndex", "save_saveIndex"}

\* The step in which slot p's index write is rejected after its record write
\* succeeded.
IndexWriteFails(p) ==
  /\ pc[p] = "save_saveIndex"
  /\ pc'[p] # "save_saveIndex"
  /\ local[p].index.hasItems
  /\ IsText(local[p].item.content)
  /\ local[p].item.id \notin PersistedKeys'

\* The record of a save that ended without indexing it.
Orphaned(id) ==
  /\ parses(records[id])
  /\ id \notin PersistedKeys
  /\ id \notin acked
  /\ \A p \in Calls : ~(InSave(p) /\ local[p].item.id = id)

dropIds(index, ids) ==
  [index EXCEPT !.items = SelectSeq(@, LAMBDA e : e.id \notin ids)]

\* C8: a search in which the records of some indexed ids are missing or cannot
\* be parsed answers exactly as it would if those ids were not in the index.
C8_UnloadableRecordIsSkipped ==
  [][\A p \in Calls :
       (pc[p] = "search_scan" /\ pc'[p] = "done")
         => resp'[p] = searchResponse(dropIds(local[p].index, local'[p].skipped),
                                      records, {}, local[p].search)]_vars

\* A search skipped an id whose record is missing or unparseable and returned
\* another item.
C8_Witness ==
  \E p \in Calls :
    /\ SearchDone(p)
    /\ resp[p].text = "found"
    /\ \E id \in local[p].skipped : ~parses(records[id])

\* scope all, no tag filter, the default limit
PlainSearch(input) ==
  /\ IsText(input.query)
  /\ input.scope \in {Undef, "all"}
  /\ input.tags \in {UndefTags, <<>>}
  /\ ~input.limitGiven

\* The query is one token and that token occurs in the record's content.
QueryTokenInContent(input, id) ==
  /\ parses(records[id])
  /\ IsText(parse(records[id]).content)
  /\ Len(tokenize(input.query)) = 1
  /\ \E i \in 1..Len(tokenize(parse(records[id]).content)) :
       tokenize(parse(records[id]).content)[i] = tokenize(input.query)[1]

Returned(p, id) ==
  \E k \in 1..Len(resp[p].results) :
    resp[p].results[k].item.id = id /\ resp[p].results[k].score > 0

\* The search in slot p found id in the index it loaded and loaded its record.
Loaded(p, id) ==
  /\ local[p].index.hasItems
  /\ id \in IndexKeys(local[p].index)
  /\ id \notin local[p].skipped

\* C9: after a successful save of an item, a search (scope all, no tag filter,
\* limit not below the number of matches) whose query is a token of the item's
\* full content returns the item with a score above 0.
C9_SavedItemIsFoundByContentToken ==
  \A p \in Calls :
    (SearchDone(p) /\ PlainSearch(local[p].search) /\ MaxSaves <= DefaultLimit)
      => \A id \in acked :
           (Loaded(p, id) /\ QueryTokenInContent(local[p].search, id))
             => Returned(p, id)

\* C10: two saves executed one after the other have two ids, two records and
\* two index entries, and a later matching search returns both.
C10_TwoSavesBothFound ==
  \A a, b \in acked :
    a # b =>
      /\ parses(records[a]) /\ parses(records[b])
      /\ \A p \in Calls :
           ( /\ SearchDone(p) /\ PlainSearch(local[p].search)
             /\ MaxSaves <= DefaultLimit
             /\ Loaded(p, a) /\ Loaded(p, b)
             /\ QueryTokenInContent(local[p].search, a)
             /\ QueryTokenInContent(local[p].search, b) )
             => Returned(p, a) /\ Returned(p, b)

\* ------------------------------------------- what a search is to return

\* The record of an id as the search in slot p loaded it.
ItemOf(id) == parse(records[id])

\* The scope a search asks for: "all" when the caller sends none.
AskedScope(input) == IF input.scope = Undef THEN "all" ELSE input.scope

ScopeAdmits(scope, item) ==
  /\ scope = "global" => item.scope = "global"
  /\ scope = "project" => item.scope = "project"

\* At least one tag of the item equals at least one requested tag, case folded.
TagMatch(tags, item) ==
  \/ tags = UndefTags
  \/ tags = <<>>
  \/ \E t \in {toLowerCase(tags[i]) : i \in 1..Len(tags)} :
        t \in {toLowerCase(item.tags[j]) : j \in 1..Len(item.tags)}

StrictlyContains(fieldToken, queryToken) ==
  /\ fieldToken # queryToken
  /\ \E off \in 0..(Len(fieldToken) - Len(queryToken)) :
        \A n \in 1..Len(queryToken) : fieldToken[off + n] = queryToken[n]

\* Number of pairs (query token, field token), query tokens with multiplicity,
\* that stand in relation R.
PairCount(fieldTokens, queryTokens, R(_, _)) ==
  Cardinality({pair \in (1..Len(queryTokens)) \X (1..Len(fieldTokens)) :
                 R(fieldTokens[pair[2]], queryTokens[pair[1]])})

Equal(fieldToken, queryToken) == fieldToken = queryToken

PairScore(item, queryTokens) ==
  10 * PairCount(tokenize(item.title), queryTokens, Equal)
  + 5 * PairCount(tokenize(item.title), queryTokens, StrictlyContains)
  + 8 * PairCount(lowerTags(item.tags), queryTokens, Equal)
  + 4 * PairCount(lowerTags(item.tags), queryTokens, StrictlyContains)
  + 2 * PairCount(tokenize(item.content), queryTokens, Equal)
  + 1 * PairCount(tokenize(item.content), queryTokens, StrictlyContains)

\* The ids the search in slot p loaded that pass its tag filter with a score
\* above 0, and those of them that pass its scope filter too.
TagMatches(p) ==
  {id \in Ids : /\ Loaded(p, id)
                /\ TagMatch(local[p].search.tags, ItemOf(id))
                /\ PairScore(ItemOf(id), tokenize(local[p].search.query)) > 0}

Matches(p) ==
  {id \in TagMatches(p) : ScopeAdmits(AskedScope(local[p].search), ItemOf(id))}

AskedLimit(input) == IF input.limitGiven THEN input.limit ELSE 10

Answered(p) == SearchDone(p) /\ ~resp[p].isError

\* C11: for every store, a search with scope=global returns no item of scope
\* project, a search with scope=project returns no item of scope global, and a
\* search with scope=all, or with no scope, leaves out no item for its scope:
\* it returns every loaded item that passes the tag filter with a score above
\* 0, as far as the limit allows.
C11_ScopeFilter ==
  \A p \in Calls :
    Answered(p) =>
      /\ local[p].search.scope = "global"
           => \A k \in 1..Len(resp[p].results) :
                resp[p].results[k].item.scope # "project"
      /\ local[p].search.scope = "project"
           => \A k \in 1..Len(resp[p].results) :
                resp[p].results[k].item.scope # "global"
      /\ ( /\ local[p].search.scope \in {Undef, "all"}
           /\ Cardinality(TagMatches(p)) <= AskedLimit(local[p].search) )
           => \A id \in TagMatches(p) : Returned(p, id)

\* A global search returned an item while a project item matched its query, and
\* a project search likewise with a global item.
C11_Witness ==
  \E p \in Calls :
    /\ Answered(p)
    /\ local[p].search.scope \in {"global", "project"}
    /\ Len(resp[p].results) > 0
    /\ \E id \in TagMatches(p) : ItemOf(id).scope # local[p].search.scope

\* C12: the tag filter is an OR: with a non-empty requested tag list a search
\* returns only items of which at least one tag equals at least one requested
\* tag after case folding, and it returns every such item that passes the scope
\* filter with a score above 0, as far as the limit allows; with an absent or
\* empty tag list no item is left out for its tags.
C12_TagFilterIsOr ==
  \A p \in Calls :
    Answered(p) =>
      /\ \A k \in 1..Len(resp[p].results) :
           TagMatch(local[p].search.tags, resp[p].results[k].item)
      /\ Cardinality(Matches(p)) <= AskedLimit(local[p].search)
           => \A id \in Matches(p) : Returned(p, id)

\* A search for two tags returned an item that has one of them in another case
\* and a second tag that was not asked for, and left out an item that matches
\* the query and has neither.
C12_Witness ==
  \E p \in Calls :
    /\ Answered(p)
    /\ Len(local[p].search.tags) = 2
    /\ \E k \in 1..Len(resp[p].results) :
         /\ Len(resp[p].results[k].item.tags) = 2
         /\ \A j \in 1..2 : resp[p].results[k].item.tags[j] # local[p].search.tags[1]
    /\ \E id \in Ids :
         /\ Loaded(p, id)
         /\ PairScore(ItemOf(id), tokenize(local[p].search.query)) > 0
         /\ ~Returned(p, id)

\* C13: an item for which no query token equals or is a substring of a title
\* token, a lower-cased tag or a content token is in no search result, whatever
\* the limit, the scope and the tag filter; and a search whose query has no
\* token answers with the no-results indicator, whatever the store holds.
C13_ZeroScoreExcluded ==
  \A p \in Calls :
    (SearchDone(p) /\ IsText(local[p].search.query)) =>
      /\ \A k \in 1..Len(resp[p].results) :
           PairScore(resp[p].results[k].item, tokenize(local[p].search.query)) > 0
      /\ tokenize(local[p].search.query) = <<>> => resp[p].text = "no_results"

\* C14: the result of a search is in descending order of score and is a top-k
\* selection: the scores of consecutive returned items do not increase, and an
\* item that passed the filters with a score above 0 and was cut by the limit
\* has a score that is at most the score of every returned item.
C14_OrderedTopK ==
  \A p \in Calls :
    Answered(p) =>
      /\ \A k \in 1..(Len(resp[p].results) - 1) :
           resp[p].results[k].score >= resp[p].results[k + 1].score
      /\ \A id \in Matches(p) :
           ~Returned(p, id)
             => \A k \in 1..Len(resp[p].results) :
                  PairScore(ItemOf(id), tokenize(local[p].search.query))
                    <= resp[p].results[k].score

\* The limit cut an item that was saved before the returned one and scores
\* less.
C14_Witness ==
  \E p \in Calls :
    /\ Answered(p)
    /\ Len(resp[p].results) = 1
    /\ \E id \in Matches(p) :
         /\ ~Returned(p, id)
         /\ id < resp[p].results[1].item.id
         /\ PairScore(ItemOf(id), tokenize(local[p].search.query))
              < resp[p].results[1].score

\* C15: a search over a store in which m loaded items pass the filters with a
\* score above 0 returns exactly min(limit, m) items for every limit the caller
\* sends and min(10, m) items when the caller sends none; no limit yields more
\* items than it allows, so a limit below 0 yields none.
C15_LimitBoundary ==
  \A p \in Calls :
    Answered(p) =>
      /\ AskedLimit(local[p].search) >= 0
           => Len(resp[p].results)
                = Min(AskedLimit(local[p].search), Cardinality(Matches(p)))
      /\ AskedLimit(local[p].search) < 0 => Len(resp[p].results) = 0

\* C16: the relevance score a search reports for an item is the sum over the
\* pairs (query token, field token), query tokens counted with multiplicity, of
\* 10 / 8 / 2 for a title token / lower-cased tag / content token equal to the
\* query token and of 5 / 4 / 1 for one that strictly contains it; it is a
\* natural number, with no cap and no normalisation by length.
C16_ScoreIsPairSum ==
  \A p \in Calls :
    Answered(p) =>
      \A k \in 1..Len(resp[p].results) :
        /\ resp[p].results[k].score \in Nat
        /\ resp[p].results[k].score
             = PairScore(resp[p].results[k].item, tokenize(local[p].search.query))

\* A query of twice the same token returned an item, of which a title token
\* strictly contains the query token, with twice the score of the single token.
C16_Witness ==
  \E p \in Calls :
    /\ Answered(p)
    /\ Len(tokenize(local[p].search.query)) = 2
    /\ \E k \in 1..Len(resp[p].results) :
         /\ resp[p].results[k].score
              = 2 * PairScore(resp[p].results[k].item,
                              <<tokenize(local[p].search.query)[1]>>)
         /\ PairCount(tokenize(resp[p].results[k].item.title),
                      tokenize(local[p].search.query), StrictlyContains) > 0

\* Array.prototype.join(" ")
RECURSIVE joinSpace(_)
joinSpace(tokens) ==
  IF tokens = <<>> THEN <<>>
  ELSE IF Len(tokens) = 1 THEN tokens[1]
  ELSE tokens[1] \o <<" ">> \o joinSpace(Tail(tokens))

LowerWordChars == {"a", "b", "k", "1", "_"}

\* C17: tokenization is idempotent: for every query text x a search tokenizes,
\* the tokens of the space-joined tokens of x are the tokens of x, and every
\* token of x is non-empty, lower-case and made of letters, digits and
\* underscores only.
C17_TokenizeIdempotent ==
  \A p \in Calls :
    (local[p].tool = "search_knowledge" /\ IsText(local[p].search.query)) =>
      LET tokens == tokenize(local[p].search.query)
      IN /\ tokenize(joinSpace(tokens)) = tokens
         /\ \A i \in 1..Len(tokens) :
              /\ Len(tokens[i]) > 0
              /\ \A j \in 1..Len(tokens[i]) : tokens[i][j] \in LowerWordChars

\* A search tokenized a query with an upper-case letter and a punctuation mark
\* into two tokens.
C17_Witness ==
  \E p \in Calls :
    /\ SearchDone(p)
    /\ Len(tokenize(local[p].search.query)) = 2
    /\ \E i, j \in 1..Len(local[p].search.query) :
         /\ local[p].search.query[i] = "A"
         /\ local[p].search.query[j] \in PunctChars

\* The entry the persisted index has for an id.
EntryOf(id) ==
  LET items == parse(indexFile).items
  IN items[CHOOSE i \in 1..Len(items) : items[i].id = id]

FirstChars(prefix, text, n) ==
  /\ Len(prefix) = IF Len(text) <= n THEN Len(text) ELSE n
  /\ \A i \in 1..Len(prefix) : prefix[i] = text[i]

\* C18: after any sequence of saves, for every id of the persisted index the
\* content of the index entry is the first 200 characters of the content of the
\* full record (all of it when it has at most 200), and every other field of
\* the entry equals the record's.
C18_IndexEntryIsRecordPrefix ==
  \A id \in PersistedKeys :
    /\ parses(records[id])
    /\ FirstChars(EntryOf(id).content, ItemOf(id).content, 200)
    /\ EntryOf(id).id = ItemOf(id).id
    /\ EntryOf(id).title = ItemOf(id).title
    /\ EntryOf(id).tags = ItemOf(id).tags
    /\ EntryOf(id).scope = ItemOf(id).scope
    /\ EntryOf(id).projectPath = ItemOf(id).projectPath
    /\ EntryOf(id).createdAt = ItemOf(id).createdAt
    /\ EntryOf(id).updatedAt = ItemOf(id).updatedAt

\* The index holds an item of more than 200 characters next to a shorter one.
C18_Witness ==
  \E a, b \in PersistedKeys :
    /\ Len(ItemOf(a).content) > 200
    /\ Len(EntryOf(a).content) = 200
    /\ EntryOf(b).content = ItemOf(b).content

\* The step is one of the call in slot p.
Moved(p) == <<pc[p], local[p], resp[p]>> # <<pc'[p], local'[p], resp'[p]>>

\* C19: calls are isolated in the dispatcher: a call whose handler throws is
\* answered with isError and the error message, and the slot is free for the
\* next request; a request that names no tool of the server is answered with
\* isError, and it changes no persisted file.
C19_CallIsolation ==
  [][\A p \in Calls :
       Moved(p) =>
         /\ resp'[p].isError => (pc'[p] = "done" /\ resp'[p].text # "none")
         /\ local'[p].tool \notin ToolNames
              => /\ resp'[p].isError
                 /\ records' = records
                 /\ indexFile' = indexFile]_vars

\* C20: reset_agent_state keeps the learned knowledge: whatever its arguments,
\* no step of it changes the knowledge index or a knowledge record, so that a
\* search after the reset answers as the same search before it.
C20_ResetKeepsKnowledge ==
  [][\A p \in Calls :
       (Moved(p) /\ local'[p].tool = "reset_agent_state") =>
         /\ indexFile' = indexFile
         /\ records' = records
         /\ \A input \in AgentSearchInputs :
              searchResponse(loadIndex(indexFile', TRUE), records', {}, input)
                = searchResponse(loadIndex(indexFile, TRUE), records, {}, input)]_vars

\* A reset without preserveKnowledge = true wrote its four files while the
\* index held two items.
C20_Witness ==
  \E p \in Calls :
    /\ local[p].tool = "reset_agent_state"
    /\ local[p].reset.preserveKnowledge # "true"
    /\ resp[p] = ResetResp
    /\ parses(stateFile) /\ parses(statisticsFile)
    /\ Cardinality(PersistedKeys) = 2
    /\ searchResponse(loadIndex(indexFile, TRUE), records, {}, BaseSearch).text = "found"

\* ----------------------------------------------------------- artifacts

\* The entry of a type in the manifest on disk; NoArtifact when it has none.
ManifestEntry(file, type) == (IF parses(file) THEN parse(file) ELSE EmptyManifest).artifacts[type]

\* The step is a call of the tool in slot p (a step that changes nothing is
\* no concern of an action property).
CallStep(p, tool) == local'[p].tool = tool /\ pc'[p] = "done"

\* The call in slot p ran with none of its storage operations rejected.
Undisturbed(p) == local'[p].rejected = {}

IsPrefix(short, long) ==
  /\ Len(short) <= Len(long)
  /\ SubSeq(long, 1, Len(short)) = short

LastVersion(entry) == entry.versions[Len(entry.versions)]

\* C22: an update_artifact that answers "Updated" has appended one version,
\* with the hash of the given content, to the versions there were and has left
\* createdAt alone, and an undisturbed update whose content has another hash
\* than the last version answers "Updated"; an update whose content has the
\* hash of the last version, or whose type is not in the manifest, changes
\* neither an artifact file nor the manifest.
C22_UpdateKeepsHistory ==
  [][\A p \in Calls :
       LET args == local'[p].args
           before == ManifestEntry(manifestFile, args.type)
           after == ManifestEntry(manifestFile', args.type)
           sameHash == /\ before # NoArtifact
                       /\ args.content # Undef
                       /\ LastVersion(before).hash = getContentHash(args.content)
       IN CallStep(p, "update_artifact") =>
            /\ resp'[p].text = "Updated" =>
                 /\ ~sameHash
                 /\ Len(after.versions) = Len(before.versions) + 1
                 /\ IsPrefix(before.versions, after.versions)
                 /\ LastVersion(after).hash = getContentHash(args.content)
                 /\ after.createdAt = before.createdAt
                 /\ artifactFiles'[args.type] = args.content
            /\ ( /\ Undisturbed(p) /\ before # NoArtifact
                 /\ args.content # Undef /\ ~sameHash )
                 => resp'[p].text = "Updated"
            /\ (before = NoArtifact \/ sameHash) =>
                 /\ artifactFiles' = artifactFiles
                 /\ manifestFile' = manifestFile
                 /\ resp'[p].text \in {"does not exist", "No changes detected"}]_vars

\* An update_artifact was just refused for "plan C", whose hash is that of the
\* last version, after an earlier update had appended a version to the first.
C22_Witness ==
  /\ local["c1"].tool = "update_artifact" /\ pc["c1"] = "done"
  /\ resp["c1"].text = "No changes detected"
  /\ local["c1"].args.content = "plan C"
  /\ LET entry == ManifestEntry(manifestFile, "task")
     IN /\ Len(entry.versions) = 2
        /\ entry.versions[1].hash # entry.versions[2].hash
        /\ entry.createdAt = entry.versions[1].timestamp
        /\ artifactFiles["task"] = "plan A"

\* C23: after an update_artifact that was given a complexity and answered
\* "Updated", the complexity of the type's manifest entry is the one given.
C23_UpdateStoresComplexity ==
  \A p \in Calls :
    ( /\ local[p].tool = "update_artifact" /\ pc[p] = "done"
      /\ resp[p].text = "Updated"
      /\ local[p].args.complexity # Undef )
      => ManifestEntry(manifestFile, local[p].args.type).complexity
           = local[p].args.complexity

\* ----------------------------------------------------------- agent state

\* A get_agent_state has answered in slot p, none of its reads rejected.
GetDone(p) ==
  /\ local[p].tool = "get_agent_state" /\ pc[p] = "done"
  /\ local[p].rejected = {}

BothSaved ==
  \A p \in Calls : SaveDone(p) /\ ~resp[p].isError

\* C25 as stated: when the saves of the two slots have both been answered
\* without error, the persisted index holds both their ids.
C25_OverlappingSavesBothIndexed ==
  BothSaved => \A p \in Calls : local[p].item.id \in PersistedKeys

\* C25 as the code has it: when the saves of the two slots have both been
\* answered without error, both records are on disk and the index holds the
\* id of at least one of them; an id the index does not hold is one the other
\* call had not found in the index it loaded (the later write put back the
\* index as it was loaded, plus its own id).
C25_LastIndexWriteWins ==
  BothSaved =>
    /\ \A p \in Calls : parses(records[local[p].item.id])
    /\ \E p \in Calls : local[p].item.id \in PersistedKeys
    /\ \A p, q \in Calls :
         (p # q /\ local[p].item.id \notin PersistedKeys)
           => local[p].item.id \notin IndexKeys(local[q].index)

\* Both saves were answered "saved", and the index holds one of the two ids.
C25_Witness ==
  /\ BothSaved
  /\ \A p \in Calls : resp[p].text = "saved" /\ parses(records[local[p].item.id])
  /\ local["c1"].item.id # local["c2"].item.id
  /\ \E p \in Calls : local[p].item.id \notin PersistedKeys
  /\ \E p \in Calls : local[p].item.id \in PersistedKeys

\* ------------------------------------------------------------- tie-break

\* The place of an id in the enumeration of the persisted index: the order in
\* which the saves inserted the ids.
IndexPos(id) ==
  CHOOSE i \in 1..Len(parse(indexFile).items) : parse(indexFile).items[i].id = id

\* C26: of two returned items with the same score, the one whose id comes
\* first in the enumeration of the persisted index comes first in the answer.
C26_TiesKeepIndexOrder ==
  \A p \in Calls :
    (Answered(p) /\ parses(indexFile)) =>
      \A k, l \in 1..Len(resp[p].results) :
        (k < l /\ resp[p].results[k].score = resp[p].results[l].score)
          => /\ resp[p].results[k].item.id \in PersistedKeys
             /\ resp[p].results[l].item.id \in PersistedKeys
             /\ IndexPos(resp[p].results[k].item.id)
                  < IndexPos(resp[p].results[l].item.id)

\* Two items with the same score were returned.
C26_Witness ==
  \E p \in Calls :
    /\ Answered(p)
    /\ Len(resp[p].results) >= 2
    /\ resp[p].results[1].score = resp[p].results[2].score
    /\ resp[p].results[1].score > 0
    /\ IndexPos(resp[p].results[1].item.id) < IndexPos(resp[p].results[2].item.id)

\* ------------------------------------------------- task state and history

C28_StateListsArtifacts ==
  \A p \in Calls :
    GetDone(p) =>
      LET recentArtifacts == local[p].agentState.recentArtifacts
      IN /\ Len(recentArtifacts) <= 20
         /\ \A type \in ArtifactTypes :
              ManifestEntry(manifestFile, type) # NoArtifact
                => \E k \in 1..Len(recentArtifacts) : recentArtifacts[k].path = type

\* The task state.json holds; NullTask when it holds none.
CurrentTask(file) == IF parses(file) THEN parse(file).currentTask ELSE NullTask

WellFormedChain(task) ==
  LET modeHistory == task.modeHistory
  IN /\ Len(modeHistory) >= 1
     /\ modeHistory[1].from = Null
     /\ \A i \in 2..Len(modeHistory) : modeHistory[i].from = modeHistory[i - 1].to
     /\ \A i \in 1..Len(modeHistory) : modeHistory[i].from # modeHistory[i].to
     /\ modeHistory[Len(modeHistory)].to = task.mode

C30_ManifestMatchesFiles ==
  ~faulted =>
    \A type \in ArtifactTypes :
      LET entry == ManifestEntry(manifestFile, type)
      IN entry # NoArtifact =>
           /\ Len(entry.versions) >= 1
           /\ artifactFiles[type] \in Contents
           /\ LastVersion(entry).hash = getContentHash(artifactFiles[type])
           /\ Len(entry.versions) = fileWrites[type]

\* Three calls wrote the file of "task", the last two with different hashes,
\* and nothing was rejected.
C30_Witness ==
  /\ ~faulted
  /\ fileWrites["task"] = 3
  /\ LET entry == ManifestEntry(manifestFile, "task")
     IN /\ Len(entry.versions) = 3
        /\ entry.versions[2].hash # entry.versions[3].hash
        /\ entry.createdAt < entry.updatedAt

====
